---- MODULE Spec2Model ----
(***************************************************************************)
(* Trade-scenario derivation of easy-crypto.                               *)
(*                                                                         *)
(*   ClassicalAnalyst.analyze   src/strategies/classic_new.py              *)
(*   SMCAnalyzer.analyze_trade  src/strategies/smc_new.py                  *)
(*   the bot's request quota    src/main.py                                *)
(*                                                                         *)
(* Numbers.  Prices are Python floats.  The model keeps them as integers   *)
(* counted in ticks, Scale ticks to one price unit; Scale is chosen so     *)
(* that every product the code forms (x0.99, x1.01, x1.5, x0.7, x0.5,      *)
(* volatility in hundredths) is a whole number of ticks for the inputs     *)
(* enumerated below, so the arithmetic is exact.  One floating-point       *)
(* effect is kept because it changes a branch of the code: a - b and a + b *)
(* return a unchanged when b is negligible beside a (absorption).  In      *)
(* float64 that happens when |b| <= |a| * 2^-54; the model scales the      *)
(* ratio 2^54 down to FltRes so that the case lies inside TLC's integers.  *)
(* An optional value (Python None) is the empty sequence, a present value  *)
(* x is <<x>>.                                                             *)
(***************************************************************************)
EXTENDS Integers, Sequences, FiniteSets, TLC

VARIABLES market, tv, pc, result,      \* ClassicalAnalyst.analyze
          series, spc, decision,       \* SMCAnalyzer.analyze_trade
          analyzer,                    \* the SMCAnalyzer instance
          supplied,                    \* the frames passed to analyze_trade
          tasks,                       \* concurrent invocations
          db, updates                  \* the bot's users_db.json and its handlers

vars == <<market, tv, pc, result, series, spc, decision, analyzer, supplied, tasks,
          db, updates>>

-----------------------------------------------------------------------------
(* Units and bounds                                                        *)

Scale == 40 * 100              \* ticks per price unit
FltRes == 4096                 \* |b| < |a| / FltRes: b is absorbed by a
PriceLevels == 1               \* ordinary prices are 100 * (1 .. PriceLevels)
MaxLen == 6                    \* candles in a series
MaxTasks == 2                  \* invocations in flight at once
MaxUpdates == 2                \* updates being handled at once

DEFAULT_VOL_PERCENT == 3       \* 0.03, in hundredths

None == <<>>
Some(x) == <<x>>
Val(o) == o[1]
Abs(x) == IF x < 0 THEN -x ELSE x
Max(a, b) == IF a >= b THEN a ELSE b
Min(a, b) == IF a <= b THEN a ELSE b

\* Python truthiness of an optional number: None and 0 are falsy.
Truthy(o) == o # None /\ Val(o) # 0
\* a or b
PyOr(a, b) == IF Truthy(a) THEN a ELSE b

\* float a - b and a + b: exact, except that a negligible b is absorbed.
Absorbed(a, b) == Abs(b) < Abs(a) \div FltRes
FSub(a, b) == IF Absorbed(a, b) THEN a ELSE a - b
FAdd(a, b) == IF Absorbed(a, b) THEN a ELSE a + b

-----------------------------------------------------------------------------
(* utils.py                                                                *)

\* parse_money: a falsy argument gives None, a number is read back.
parse_money(s) == IF ~Truthy(s) THEN None ELSE s
\* parse_percent: None for a falsy argument, else the number / 100; the
\* model counts fractions in hundredths, so the numeral n stands for n/100.
parse_percent(s) == IF ~Truthy(s) THEN None ELSE s

-----------------------------------------------------------------------------
(* ClassicalAnalyst                                                        *)

TargetsFlipped(entry, stop, long) ==
    LET risk == Abs(FSub(entry, stop))
    IN  IF risk <= 0 THEN None
        ELSE IF long
             THEN <<FAdd(entry, 3 * risk), FAdd(entry, 2 * risk), FAdd(entry, 1 * risk)>>
             ELSE <<FSub(entry, 3 * risk), FSub(entry, 2 * risk), FSub(entry, 1 * risk)>>

\* _calc_targets_from_r: <<TP1, TP2, TP3>>, or None when the risk is zero.
calc_targets_from_r(entry, stop, long) ==
    LET risk == Abs(FSub(entry, stop))
    IN  IF risk <= 0 THEN None
        ELSE IF long
             THEN <<FAdd(entry, 1 * risk), FAdd(entry, 2 * risk), FAdd(entry, 3 * risk)>>
             ELSE <<FSub(entry, 1 * risk), FSub(entry, 2 * risk), FSub(entry, 3 * risk)>>

\* The indicators after normalisation (analyze, lines 52-85).
Indicators(m, t) ==
    LET vol0 == m.volatility
    IN  [ current_price |-> PyOr(m.current_price, t.price),
          sma50         |-> PyOr(m.sma50, parse_money(t.sma50)),
          sma200        |-> PyOr(m.sma200, parse_money(t.sma200)),
          rsi           |-> PyOr(m.rsi_14, t.rsi),
          macd_val      |-> t.macd,
          volatility    |-> IF vol0 = None
                            THEN PyOr(parse_percent(t.volatility), Some(DEFAULT_VOL_PERCENT))
                            ELSE vol0 ]

TrendInverted(ind) ==
    IF Truthy(ind.sma50) /\ Truthy(ind.sma200)
    THEN IF Val(ind.sma50) > Val(ind.sma200) THEN "bearish"
         ELSE IF Val(ind.sma50) < Val(ind.sma200) THEN "bullish"
         ELSE "neutral"
    ELSE "neutral"

\* analyze, lines 87-93
Trend(ind) ==
    IF Truthy(ind.sma50) /\ Truthy(ind.sma200)
    THEN IF Val(ind.sma50) > Val(ind.sma200) THEN "bullish"
         ELSE IF Val(ind.sma50) < Val(ind.sma200) THEN "bearish"
         ELSE "neutral"
    ELSE "neutral"

\* (volatility or DEFAULT_VOL_PERCENT) * current_price, volatility in hundredths
SlDistance(ind) ==
    (Val(PyOr(ind.volatility, Some(DEFAULT_VOL_PERCENT))) * Val(ind.current_price)) \div 100
SlBufferNone(ind) == 0
SlBuffer(ind) == SlDistance(ind) \div 2
Offset(ind) == SlDistance(ind) + SlBuffer(ind)

RsiMid(ind) == Truthy(ind.rsi) /\ 30 < Val(ind.rsi) /\ Val(ind.rsi) < 70

SpotLongNoFloor(ind) ==
    LET trend == Trend(ind)
        price == Val(ind.current_price)
    IN  IF trend = "bullish"
        THEN LET momentum_ok == (Truthy(ind.macd_val) /\ Val(ind.macd_val) > 0) \/ RsiMid(ind)
                 long_entry  == IF momentum_ok \/ ~Truthy(ind.sma50)
                                THEN price ELSE Val(ind.sma50)
                 long_stop   == FSub(long_entry, Offset(ind))
             IN  [ bias |-> trend, entry |-> long_entry, stop_loss |-> long_stop,
                   targets |-> calc_targets_from_r(long_entry, long_stop, TRUE),
                   rationale |-> {"trend", "momentum", "volatility"} ]
        ELSE LET fallback_entry == Val(PyOr(ind.sma50, Some((price * 99) \div 100)))
                 long_stop      == FSub(fallback_entry, Offset(ind))
             IN  [ bias |-> trend, entry |-> fallback_entry, stop_loss |-> long_stop,
                   targets |-> calc_targets_from_r(fallback_entry, long_stop, TRUE),
                   rationale |-> {"note"} ]

\* analyze, lines 103-130
SpotLong(ind) ==
    LET trend == Trend(ind)
        price == Val(ind.current_price)
    IN  IF trend = "bullish"
        THEN LET momentum_ok == (Truthy(ind.macd_val) /\ Val(ind.macd_val) > 0) \/ RsiMid(ind)
                 long_entry  == IF momentum_ok \/ ~Truthy(ind.sma50)
                                THEN price ELSE Val(ind.sma50)
                 long_stop   == Max(0, FSub(long_entry, Offset(ind)))
             IN  [ bias |-> trend, entry |-> long_entry, stop_loss |-> long_stop,
                   targets |-> calc_targets_from_r(long_entry, long_stop, TRUE),
                   rationale |-> {"trend", "momentum", "volatility"} ]
        ELSE LET fallback_entry == Val(PyOr(ind.sma50, Some((price * 99) \div 100)))
                 long_stop      == Max(0, FSub(fallback_entry, Offset(ind)))
             IN  [ bias |-> trend, entry |-> fallback_entry, stop_loss |-> long_stop,
                   targets |-> calc_targets_from_r(fallback_entry, long_stop, TRUE),
                   rationale |-> {"note"} ]

SpotShortScaledFallback(ind) ==
    LET trend == Trend(ind)
        price == Val(ind.current_price)
    IN  IF trend = "bearish"
        THEN LET momentum_ok == (Truthy(ind.macd_val) /\ Val(ind.macd_val) < 0) \/ RsiMid(ind)
                 short_entry == IF momentum_ok \/ ~Truthy(ind.sma50)
                                THEN price ELSE Val(ind.sma50)
                 short_stop  == FAdd(short_entry, Offset(ind))
             IN  [ bias |-> trend, entry |-> short_entry, stop_loss |-> short_stop,
                   targets |-> calc_targets_from_r(short_entry, short_stop, FALSE),
                   rationale |-> {"trend", "momentum", "volatility"} ]
        ELSE LET fallback_entry == IF Truthy(ind.sma50)
                                   THEN (Val(ind.sma50) * 101) \div 100
                                   ELSE (price * 101) \div 100
                 short_stop     == FAdd(fallback_entry, Offset(ind))
             IN  [ bias |-> trend, entry |-> fallback_entry, stop_loss |-> short_stop,
                   targets |-> calc_targets_from_r(fallback_entry, short_stop, FALSE),
                   rationale |-> {"note"} ]

\* analyze, lines 132-159
SpotShort(ind) ==
    LET trend == Trend(ind)
        price == Val(ind.current_price)
    IN  IF trend = "bearish"
        THEN LET momentum_ok == (Truthy(ind.macd_val) /\ Val(ind.macd_val) < 0) \/ RsiMid(ind)
                 short_entry == IF momentum_ok \/ ~Truthy(ind.sma50)
                                THEN price ELSE Val(ind.sma50)
                 short_stop  == FAdd(short_entry, Offset(ind))
             IN  [ bias |-> trend, entry |-> short_entry, stop_loss |-> short_stop,
                   targets |-> calc_targets_from_r(short_entry, short_stop, FALSE),
                   rationale |-> {"trend", "momentum", "volatility"} ]
        ELSE LET fallback_entry == Val(PyOr(ind.sma50, Some((price * 101) \div 100)))
                 short_stop     == FAdd(fallback_entry, Offset(ind))
             IN  [ bias |-> trend, entry |-> fallback_entry, stop_loss |-> short_stop,
                   targets |-> calc_targets_from_r(fallback_entry, short_stop, FALSE),
                   rationale |-> {"note"} ]

\* What adjust_for_futures does: it either returns a scenario or raises
\* AttributeError, because None has no items().
FuturesNoTighten(base, long) ==
    LET entry   == base.entry
        risk    == Abs(FSub(entry, base.stop_loss))
        stop    == IF long THEN FSub(entry, risk) ELSE FAdd(entry, risk)
        targets == calc_targets_from_r(entry, stop, long)
    IN  IF targets = None
        THEN [ raised |-> "AttributeError", value |-> base ]
        ELSE [ raised |-> "none",
               value  |-> [ base EXCEPT
                   !.stop_loss = stop,
                   !.targets   = [ k \in 1..3 |->
                                     IF targets[k] = 0 THEN targets[k]
                                     ELSE (targets[k] * 3) \div 2 ],
                   !.rationale = base.rationale \cup {"type"} ] ]

FuturesFromSpotTargets(base, long) ==
    LET entry   == base.entry
        risk    == (Abs(FSub(entry, base.stop_loss)) * 7) \div 10
        stop    == IF long THEN FSub(entry, risk) ELSE FAdd(entry, risk)
        targets == base.targets
    IN  IF targets = None
        THEN [ raised |-> "AttributeError", value |-> base ]
        ELSE [ raised |-> "none",
               value  |-> [ base EXCEPT
                   !.stop_loss = stop,
                   !.targets   = [ k \in 1..3 |->
                                     IF targets[k] = 0 THEN targets[k]
                                     ELSE (targets[k] * 3) \div 2 ],
                   !.rationale = base.rationale \cup {"type"} ] ]

\* adjust_for_futures, lines 167-182
adjust_for_futures(base, long) ==
    LET entry   == base.entry
        risk    == (Abs(FSub(entry, base.stop_loss)) * 7) \div 10
        stop    == IF long THEN FSub(entry, risk) ELSE FAdd(entry, risk)
        targets == calc_targets_from_r(entry, stop, long)
    IN  IF targets = None
        THEN [ raised |-> "AttributeError", value |-> base ]
        ELSE [ raised |-> "none",
               value  |-> [ base EXCEPT
                   !.stop_loss = stop,
                   !.targets   = [ k \in 1..3 |->
                                     IF targets[k] = 0 THEN targets[k]
                                     ELSE (targets[k] * 3) \div 2 ],
                   !.rationale = base.rationale \cup {"type"} ] ]

NoScenarios == [ x \in {} |-> {} ]      \* the empty mapping {}

AnalyzeKeepsTrend(m, t) ==
    LET ind == Indicators(m, t)
    IN  IF ~Truthy(ind.current_price)
        THEN [ raised |-> "none", trend |-> Trend(ind), scenarios |-> NoScenarios ]
        ELSE LET sl == SpotLong(ind)
                 ss == SpotShort(ind)
                 fl == adjust_for_futures(sl, TRUE)
                 fs == adjust_for_futures(ss, FALSE)
             IN  IF fl.raised # "none"
                 THEN [ raised |-> fl.raised, trend |-> Trend(ind), scenarios |-> NoScenarios ]
                 ELSE IF fs.raised # "none"
                 THEN [ raised |-> fs.raised, trend |-> Trend(ind), scenarios |-> NoScenarios ]
                 ELSE [ raised |-> "none", trend |-> Trend(ind),
                        scenarios |-> [ spot    |-> [ long |-> sl, short |-> ss ],
                                        futures |-> [ long |-> fl.value, short |-> fs.value ] ] ]

\* analyze, lines 35-195: the value returned, or the exception raised.
Analyze(m, t) ==
    LET ind == Indicators(m, t)
    IN  IF ~Truthy(ind.current_price)
        THEN [ raised |-> "none", trend |-> "unknown", scenarios |-> NoScenarios ]
        ELSE LET sl == SpotLong(ind)
                 ss == SpotShort(ind)
                 fl == adjust_for_futures(sl, TRUE)
                 fs == adjust_for_futures(ss, FALSE)
             IN  IF fl.raised # "none"
                 THEN [ raised |-> fl.raised, trend |-> Trend(ind), scenarios |-> NoScenarios ]
                 ELSE IF fs.raised # "none"
                 THEN [ raised |-> fs.raised, trend |-> Trend(ind), scenarios |-> NoScenarios ]
                 ELSE [ raised |-> "none", trend |-> Trend(ind),
                        scenarios |-> [ spot    |-> [ long |-> sl, short |-> ss ],
                                        futures |-> [ long |-> fl.value, short |-> fs.value ] ] ]

-----------------------------------------------------------------------------
(* SMCAnalyzer                                                             *)
(*                                                                         *)
(* A candle is [high, low, close] in cents (the unit of the detectors);    *)
(* the open is never read by the analyzer.  Candle i of the code, counted  *)
(* from 0, is ohlc[i + 1].  A DataFrame is the sequence of its rows; an    *)
(* empty DataFrame is << >>.  DataFrame.sort("idx") is taken to keep the   *)
(* order of rows that share an idx.                                        *)

\* SMCAnalyzer.__init__: the percentages in hundredths
SMCAnalyzer(swing_length) ==
    [ swing_length |-> swing_length, fvg_max_dist_pct |-> 3, liq_range_pct |-> 1 ]

Analyzer == SMCAnalyzer(1)

SetMax(S) == CHOOSE x \in S : \A y \in S : x >= y
SetMin(S) == CHOOSE x \in S : \A y \in S : x <= y

RECURSIVE InsertByIdx(_, _)
InsertByIdx(sorted, r) ==
    IF sorted = << >> THEN <<r>>
    ELSE IF sorted[Len(sorted)].idx <= r.idx THEN Append(sorted, r)
    ELSE Append(InsertByIdx(SubSeq(sorted, 1, Len(sorted) - 1), r), sorted[Len(sorted)])

RECURSIVE SortByIdx(_)
\* sort("idx"), rows of equal idx kept in order
SortByIdx(rows) ==
    IF rows = << >> THEN << >>
    ELSE InsertByIdx(SortByIdx(SubSeq(rows, 1, Len(rows) - 1)), rows[Len(rows)])

\* the last k rows: tail(k) and [-k:]
LastRows(rows, k) == SubSeq(rows, Max(1, Len(rows) - k + 1), Len(rows))

OfType(rows, ty) == LET Is(r) == r.type = ty IN SelectSeq(rows, Is)

SwingsAtOpenWindow(self, ohlc, i) ==
    LET n == Len(ohlc)
        L == self.swing_length
    IN  IF (i - L) < 0 \/ (i + L) >= n THEN << >>
        ELSE LET window      == (i - L) .. (i + L - 1)
                 window_high == SetMax({ ohlc[j + 1].high : j \in window })
                 window_low  == SetMin({ ohlc[j + 1].low : j \in window })
             IN  (IF ohlc[i + 1].high = window_high
                  THEN << [ idx |-> i, type |-> "high", price |-> ohlc[i + 1].high ] >>
                  ELSE << >>)
                 \o
                 (IF ohlc[i + 1].low = window_low
                  THEN << [ idx |-> i, type |-> "low", price |-> ohlc[i + 1].low ] >>
                  ELSE << >>)

SwingsAtNoLookAhead(self, ohlc, i) ==
    LET n == Len(ohlc)
        L == self.swing_length
    IN  IF (i - L) < 0 THEN << >>
        ELSE LET window      == (i - L) .. Min(i + L, n - 1)
                 window_high == SetMax({ ohlc[j + 1].high : j \in window })
                 window_low  == SetMin({ ohlc[j + 1].low : j \in window })
             IN  (IF ohlc[i + 1].high = window_high
                  THEN << [ idx |-> i, type |-> "high", price |-> ohlc[i + 1].high ] >>
                  ELSE << >>)
                 \o
                 (IF ohlc[i + 1].low = window_low
                  THEN << [ idx |-> i, type |-> "low", price |-> ohlc[i + 1].low ] >>
                  ELSE << >>)

\* detect_swings, the body of the loop (lines 52-61)
SwingsAt(self, ohlc, i) ==
    LET n == Len(ohlc)
        L == self.swing_length
    IN  IF (i - L) < 0 \/ (i + L) >= n THEN << >>
        ELSE LET window      == (i - L) .. (i + L)
                 window_high == SetMax({ ohlc[j + 1].high : j \in window })
                 window_low  == SetMin({ ohlc[j + 1].low : j \in window })
             IN  (IF ohlc[i + 1].high = window_high
                  THEN << [ idx |-> i, type |-> "high", price |-> ohlc[i + 1].high ] >>
                  ELSE << >>)
                 \o
                 (IF ohlc[i + 1].low = window_low
                  THEN << [ idx |-> i, type |-> "low", price |-> ohlc[i + 1].low ] >>
                  ELSE << >>)

RECURSIVE SwingsUpTo(_, _, _)
SwingsUpTo(self, ohlc, k) ==
    IF k = 0 THEN << >> ELSE SwingsUpTo(self, ohlc, k - 1) \o SwingsAt(self, ohlc, k - 1)

\* detect_swings, lines 41-65
detect_swings(self, ohlc) == SortByIdx(SwingsUpTo(self, ohlc, Len(ohlc)))

GapsAtNextCandle(ohlc, i) ==
    LET c1h == ohlc[i + 1].high
        c1l == ohlc[i + 1].low
        c3h == ohlc[i + 2].high
        c3l == ohlc[i + 2].low
    IN  (IF c1h < c3l
         THEN << [ start_idx |-> i, end_idx |-> i + 2, type |-> "bull",
                   low |-> c1h, high |-> c3l ] >>
         ELSE << >>)
        \o
        (IF c1l > c3h
         THEN << [ start_idx |-> i, end_idx |-> i + 2, type |-> "bear",
                   low |-> c3h, high |-> c1l ] >>
         ELSE << >>)

GapsAtBearFromFirstCandle(ohlc, i) ==
    LET c1h == ohlc[i + 1].high
        c1l == ohlc[i + 1].low
        c3h == ohlc[i + 3].high
        c3l == ohlc[i + 3].low
    IN  (IF c1h < c3l
         THEN << [ start_idx |-> i, end_idx |-> i + 2, type |-> "bull",
                   low |-> c1h, high |-> c3l ] >>
         ELSE << >>)
        \o
        (IF c1l > c3h
         THEN << [ start_idx |-> i, end_idx |-> i + 2, type |-> "bear",
                   low |-> c1l, high |-> c3h ] >>
         ELSE << >>)

\* detect_fvg, the body of the loop (lines 82-89)
GapsAt(ohlc, i) ==
    LET c1h == ohlc[i + 1].high
        c1l == ohlc[i + 1].low
        c3h == ohlc[i + 3].high
        c3l == ohlc[i + 3].low
    IN  (IF c1h < c3l
         THEN << [ start_idx |-> i, end_idx |-> i + 2, type |-> "bull",
                   low |-> c1h, high |-> c3l ] >>
         ELSE << >>)
        \o
        (IF c1l > c3h
         THEN << [ start_idx |-> i, end_idx |-> i + 2, type |-> "bear",
                   low |-> c3h, high |-> c1l ] >>
         ELSE << >>)

RECURSIVE GapsUpTo(_, _)
GapsUpTo(ohlc, k) ==
    IF k <= 0 THEN << >> ELSE GapsUpTo(ohlc, k - 1) \o GapsAt(ohlc, k - 1)

\* detect_fvg, lines 70-92; the rows are appended in start_idx order, which
\* sort("start_idx") keeps
detect_fvg(ohlc) == GapsUpTo(ohlc, Len(ohlc) - 2)

\* max(rows, key = idx): the first row of greatest idx
LatestByIdx(rows) ==
    LET top == SetMax({ rows[k].idx : k \in 1..Len(rows) })
        k0  == SetMin({ k \in 1..Len(rows) : rows[k].idx = top })
    IN  rows[k0]

BreaksAtAnyIndex(ohlc, highs, lows, i) ==
    LET close == ohlc[i + 1].close
    IN  (IF highs # << >>
            /\ 1000 * close > 1001 * LatestByIdx(highs).price
         THEN << [ idx |-> i, type |-> "BOS_high", price |-> close,
                   ref_idx |-> Some(LatestByIdx(highs).idx) ] >>
         ELSE << >>)
        \o
        (IF lows # << >>
            /\ 1000 * close < 999 * LatestByIdx(lows).price
         THEN << [ idx |-> i, type |-> "BOS_low", price |-> close,
                   ref_idx |-> Some(LatestByIdx(lows).idx) ] >>
         ELSE << >>)

\* detect_bos_choch, the body of the loop (lines 124-128)
BreaksAt(ohlc, highs, lows, i) ==
    LET close == ohlc[i + 1].close
    IN  (IF highs # << >> /\ i > LatestByIdx(highs).idx
            /\ 1000 * close > 1001 * LatestByIdx(highs).price
         THEN << [ idx |-> i, type |-> "BOS_high", price |-> close,
                   ref_idx |-> Some(LatestByIdx(highs).idx) ] >>
         ELSE << >>)
        \o
        (IF lows # << >> /\ i > LatestByIdx(lows).idx
            /\ 1000 * close < 999 * LatestByIdx(lows).price
         THEN << [ idx |-> i, type |-> "BOS_low", price |-> close,
                   ref_idx |-> Some(LatestByIdx(lows).idx) ] >>
         ELSE << >>)

RECURSIVE BreaksFromTo(_, _, _, _, _)
BreaksFromTo(ohlc, highs, lows, start, k) ==
    IF k <= start THEN << >>
    ELSE BreaksFromTo(ohlc, highs, lows, start, k - 1) \o BreaksAt(ohlc, highs, lows, k - 1)

simple_trend_up_when_equal(vals) ==
    IF Len(vals) < 2 THEN "None"
    ELSE IF vals[Len(vals)] >= vals[Len(vals) - 1] THEN "up" ELSE "down"

\* simple_trend, lines 137-140: None, "up" or "down"
simple_trend(vals) ==
    IF Len(vals) < 2 THEN "None"
    ELSE IF vals[Len(vals)] > vals[Len(vals) - 1] THEN "up" ELSE "down"

Prices_of(rows) == [ k \in 1..Len(rows) |-> rows[k].price ]

\* detect_bos_choch, lines 97-152
detect_bos_choch(ohlc, swings_df) ==
    IF swings_df = << >> THEN << >>
    ELSE
    LET n             == Len(ohlc)
        highs         == OfType(swings_df, "high")
        lows          == OfType(swings_df, "low")
        recent_window == Min(30, n)
        start         == Max(0, n - recent_window)
        breaks        == BreaksFromTo(ohlc, highs, lows, start, n)
        seq_short     == LastRows(SortByIdx(swings_df), 6)
        htrend        == simple_trend(Prices_of(OfType(seq_short, "high")))
        ltrend        == simple_trend(Prices_of(OfType(seq_short, "low")))
        bear          == IF htrend = "down" /\ ltrend = "down"
                         THEN << [ idx |-> n - 1, type |-> "CHOCH_bear",
                                   price |-> ohlc[n].close, ref_idx |-> None ] >>
                         ELSE << >>
        bull          == IF htrend = "up" /\ ltrend = "up"
                         THEN << [ idx |-> n - 1, type |-> "CHOCH_bull",
                                   price |-> ohlc[n].close, ref_idx |-> None ] >>
                         ELSE << >>
    IN  SortByIdx(breaks \o bear \o bull)

RECURSIVE AscendingSeq(_)
\* the members of a set of indices in increasing order
AscendingSeq(S) ==
    IF S = {} THEN << >> ELSE <<SetMin(S)>> \o AscendingSeq(S \ {SetMin(S)})

RECURSIVE SumSeq(_)
SumSeq(q) == IF q = << >> THEN 0 ELSE q[1] + SumSeq(SubSeq(q, 2, Len(q)))

RECURSIVE InsertBySize(_, _)
InsertBySize(sorted, c) ==
    IF sorted = << >> THEN <<c>>
    ELSE IF sorted[Len(sorted)].size >= c.size THEN Append(sorted, c)
    ELSE Append(InsertBySize(SubSeq(sorted, 1, Len(sorted) - 1), c), sorted[Len(sorted)])

RECURSIVE SortBySizeDesc(_)
\* list.sort(key = size, reverse = True): stable
SortBySizeDesc(cs) ==
    IF cs = << >> THEN << >>
    ELSE InsertBySize(SortBySizeDesc(SubSeq(cs, 1, Len(cs) - 1)), cs[Len(cs)])

RECURSIVE ClustersFrom(_, _, _, _)
\* detect_liquidity_clusters, the loop over the seeds (lines 171-188); k and
\* the members count the swings from 1, a mean is the fraction num / den
ClustersFrom(swings, rp, k, used) ==
    IF k > Len(swings) THEN << >>
    ELSE IF k \in used THEN ClustersFrom(swings, rp, k + 1, used)
    ELSE LET p       == swings[k].price
             joined  == { j \in (k + 1)..Len(swings) :
                            /\ j \notin used
                            /\ 100 * Abs(swings[j].price - p) <= rp * p }
             members == <<k>> \o AscendingSeq(joined)
             cluster == [ mean_price  |-> [ num |-> SumSeq([ m \in 1..Len(members) |->
                                                               swings[members[m]].price ]),
                                            den |-> Len(members) ],
                          size        |-> Len(members),
                          members_idx |-> [ m \in 1..Len(members) |-> swings[members[m]].idx ],
                          types       |-> [ m \in 1..Len(members) |-> swings[members[m]].type ] ]
         IN  <<cluster>> \o ClustersFrom(swings, rp, k + 1, used \cup {k} \cup joined)

detect_liquidity_clusters_in_seed_order(swings_df, range_percent) ==
    IF swings_df = << >> THEN << >>
    ELSE ClustersFrom(swings_df, range_percent, 1, {})

detect_liquidity_clusters_of_two_or_more(swings_df, range_percent) ==
    IF swings_df = << >> THEN << >>
    ELSE LET Confirmed(c) == c.size >= 2
         IN  SelectSeq(SortBySizeDesc(ClustersFrom(swings_df, range_percent, 1, {})), Confirmed)

\* detect_liquidity_clusters, lines 157-192
detect_liquidity_clusters(swings_df, range_percent) ==
    IF swings_df = << >> THEN << >>
    ELSE SortBySizeDesc(ClustersFrom(swings_df, range_percent, 1, {}))

\* fractions num / den with den > 0
FracLess(x, y) == x.num * y.den < y.num * x.den
\* min(range(len(dists)), key = dists): the first index of least distance
FirstMin(dists) ==
    SetMin({ k \in 1..Len(dists) :
               /\ \A j \in 1..Len(dists) : ~FracLess(dists[j], dists[k]) })

\* _nearest_fvg, lines 198-207: the distance of the gap's centre
\* (low + high) / 2 from the price, relative to the centre
nearest_fvg(price, fvg_df, max_dist_pct) ==
    IF fvg_df = << >> THEN [ rec |-> None, dist |-> None ]
    ELSE LET dists == [ k \in 1..Len(fvg_df) |->
                          [ num |-> Abs(fvg_df[k].low + fvg_df[k].high - 2 * price),
                            den |-> fvg_df[k].low + fvg_df[k].high ] ]
             min_i == FirstMin(dists)
         IN  IF 100 * dists[min_i].num <= max_dist_pct * dists[min_i].den
             THEN [ rec |-> Some(fvg_df[min_i]), dist |-> Some(dists[min_i]) ]
             ELSE [ rec |-> None, dist |-> None ]

\* _nearest_liquidity, lines 210-218
nearest_liquidity(price, lc_df, max_dist_pct) ==
    IF lc_df = << >> THEN [ rec |-> None, dist |-> None ]
    ELSE LET dists == [ k \in 1..Len(lc_df) |->
                          [ num |-> Abs(lc_df[k].mean_price.num - price * lc_df[k].mean_price.den),
                            den |-> lc_df[k].mean_price.num ] ]
             min_i == FirstMin(dists)
         IN  IF 100 * dists[min_i].num <= max_dist_pct * dists[min_i].den
             THEN [ rec |-> Some(lc_df[min_i]), dist |-> Some(dists[min_i]) ]
             ELSE [ rec |-> None, dist |-> None ]

\* Levels of a Decision are counted in units of 0.00001: Fine of them to a cent.
Fine == 10 * 100
\* the 1e-9 added to the stop distance (lines 363 and 380), scaled up to
\* 0.0001: positive and below half the 0.001 step of round(x, 3)
STOP_EPS == 10
\* x - (d + 1e-9) and x + (d + 1e-9) in floats: from x = 2^24 on, 1e-9 is less
\* than half the spacing of the floats around x and the result is that of
\* x - d and x + d.  The model scales 2^24 down to 50 price units so that
\* such prices lie inside TLC's integers.
EPS_LOST_FROM == 5000 * Fine
StopBelowWithoutEps(x, d) == x - d
StopBelow(x, d) == IF x >= EPS_LOST_FROM THEN x - d ELSE x - (d + STOP_EPS)
StopAbove(x, d) == IF x >= EPS_LOST_FROM THEN x + d ELSE x + (d + STOP_EPS)

Count(q, x) == Cardinality({ k \in 1..Len(q) : q[k] = x })
Has(q, x) == \E k \in 1..Len(q) : q[k] = x

BiasNotStrict(swings) ==
    IF swings # << >> /\ Len(swings) >= 4
    THEN LET seq   == SortByIdx(swings)
             highs == Prices_of(LastRows(OfType(seq, "high"), 3))
             lows  == Prices_of(LastRows(OfType(seq, "low"), 3))
             nh    == Len(highs)
             nl    == Len(lows)
         IN  IF nh >= 2 /\ nl >= 2
             THEN IF highs[nh] <= highs[nh - 1] /\ lows[nl] <= lows[nl - 1] THEN "bear"
                  ELSE IF highs[nh] >= highs[nh - 1] /\ lows[nl] >= lows[nl - 1] THEN "bull"
                  ELSE "neutral"
             ELSE "neutral"
    ELSE "neutral"

\* analyze_trade, lines 248-258
Bias(swings) ==
    IF swings # << >> /\ Len(swings) >= 4
    THEN LET seq   == SortByIdx(swings)
             highs == Prices_of(LastRows(OfType(seq, "high"), 3))
             lows  == Prices_of(LastRows(OfType(seq, "low"), 3))
             nh    == Len(highs)
             nl    == Len(lows)
         IN  IF nh >= 2 /\ nl >= 2
             THEN IF highs[nh] < highs[nh - 1] /\ lows[nl] < lows[nl - 1] THEN "bear"
                  ELSE IF highs[nh] > highs[nh - 1] /\ lows[nl] > lows[nl - 1] THEN "bull"
                  ELSE "neutral"
             ELSE "neutral"
    ELSE "neutral"

\* analyze_trade, lines 261-262
RecentEvents(n, bos_choch) ==
    LET recent_threshold == Max(0, n - 30)
        IsRecent(r)      == r.idx >= recent_threshold
        recent           == SelectSeq(bos_choch, IsRecent)
    IN  [ k \in 1..Len(recent) |-> recent[k].type ]

GapScoreNeutralMisaligned(bias, gap) ==
    LET gtype == Val(gap.rec).type
        a     == Val(gap.dist).num
        s     == Val(gap.dist).den
    IN  IF (gtype = "bull" /\ bias = "bull") \/ (gtype = "bear" /\ bias = "bear")
        THEN Max(8 * s, 12 * s - 100 * a)
        ELSE -5 * s

\* analyze_trade, lines 298-305: the gap's share of the score, in hundredths
\* times the denominator s of the gap distance a / s
GapScore(bias, gap) ==
    LET gtype == Val(gap.rec).type
        a     == Val(gap.dist).num
        s     == Val(gap.dist).den
    IN  IF (gtype = "bull" /\ bias = "bull") \/ (gtype = "bear" /\ bias = "bear")
           \/ bias = "neutral"
        THEN Max(8 * s, 12 * s - 100 * a)
        ELSE -5 * s

\* analyze_trade, lines 307-324, in hundredths
LiquidityScore(bias, liq) ==
    LET types      == Val(liq.rec).types
        high_count == Count(types, "high")
        low_count  == Count(types, "low")
    IN  IF high_count > low_count THEN (IF bias = "bull" THEN -8 ELSE 3)
        ELSE IF low_count > high_count THEN (IF bias = "bear" THEN 3 ELSE 5)
        ELSE 0

\* analyze_trade, lines 327-335, in hundredths
SwingScore(bias, swings, last_close) ==
    IF swings = << >> THEN 0
    ELSE LET last_swing == SortByIdx(swings)[Len(swings)]
         IN  IF 1000 * Abs(last_close - last_swing.price) <= 15 * last_swing.price
             THEN IF (last_swing.type = "low" /\ bias = "bull")
                     \/ (last_swing.type = "high" /\ bias = "bear")
                  THEN 3 ELSE -3
             ELSE 0

\* analyze_trade, lines 272-335: the raw score as the fraction num / den
Score(bias, recent_events, gap, liq, swings, last_close) ==
    LET s    == IF gap.rec = None THEN 1 ELSE Val(gap.dist).den
        base == 50
                + (IF bias = "bull" THEN 15 ELSE IF bias = "bear" THEN -15 ELSE 0)
                + (IF Has(recent_events, "CHOCH_bull") THEN 25 ELSE 0)
                - (IF Has(recent_events, "CHOCH_bear") THEN 25 ELSE 0)
                + (IF Has(recent_events, "BOS_high") THEN 12 ELSE 0)
                - (IF Has(recent_events, "BOS_low") THEN 12 ELSE 0)
                + (IF liq.rec = None THEN 0 ELSE LiquidityScore(bias, liq))
                + SwingScore(bias, swings, last_close)
    IN  [ num |-> base * s + (IF gap.rec = None THEN 0 ELSE GapScore(bias, gap)),
          den |-> 100 * s ]

ConfidenceUnclamped(score) == score

\* analyze_trade, line 338: max(0.0, min(1.0, score))
Confidence(score) == [ num |-> Max(0, Min(score.den, score.num)), den |-> score.den ]

ActionStrict(confidence, bias, recent_events) ==
    IF 100 * confidence.num > 62 * confidence.den
    THEN IF bias \in {"bull", "neutral"} \/ Has(recent_events, "CHOCH_bull")
         THEN "buy" ELSE "sell"
    ELSE IF 100 * confidence.num < 38 * confidence.den
    THEN IF bias \in {"bear", "neutral"} \/ Has(recent_events, "CHOCH_bear")
         THEN "sell" ELSE "buy"
    ELSE "hold"

\* analyze_trade, lines 341-346
Action(confidence, bias, recent_events) ==
    IF 100 * confidence.num >= 62 * confidence.den
    THEN IF bias \in {"bull", "neutral"} \/ Has(recent_events, "CHOCH_bull")
         THEN "buy" ELSE "sell"
    ELSE IF 100 * confidence.num <= 38 * confidence.den
    THEN IF bias \in {"bear", "neutral"} \/ Has(recent_events, "CHOCH_bear")
         THEN "sell" ELSE "buy"
    ELSE "hold"

\* analyze_trade, lines 349-385: entry, stop and targets before rounding
Levels(action, gap, swings, last_close) ==
    IF action = "buy"
    THEN IF gap.rec # None /\ Val(gap.rec).type = "bull"
         THEN LET g     == Val(gap.rec)
                  entry == Fine * Max(g.low, last_close)
                  stop  == Fine * g.low - (Fine * Abs(g.high - g.low) * 6) \div 10
              IN  [ entry |-> Some(entry), stop |-> Some(stop),
                    targets |-> << entry + ((entry - stop) * 3) \div 2,
                                   entry + (entry - stop) * 3 >> ]
         ELSE LET lows == OfType(swings, "low")
              IN  IF lows # << >>
                  THEN LET last_low == SortByIdx(lows)[Len(lows)].price
                           entry    == Fine * Max(last_low, last_close)
                           stop     == StopBelow(Fine * last_low,
                                                 (Abs(entry - Fine * last_low) * 6) \div 10)
                       IN  [ entry |-> Some(entry), stop |-> Some(stop),
                             targets |-> << entry + ((entry - stop) * 6) \div 5,
                                            entry + (entry - stop) * 2 >> ]
                  ELSE [ entry |-> Some(Fine * last_close),
                         stop |-> Some((Fine * last_close * 98) \div 100),
                         targets |-> << (Fine * last_close * 102) \div 100,
                                        (Fine * last_close * 104) \div 100 >> ]
    ELSE IF action = "sell"
    THEN IF gap.rec # None /\ Val(gap.rec).type = "bear"
         THEN LET g     == Val(gap.rec)
                  entry == Fine * Min(g.high, last_close)
                  stop  == Fine * g.high + (Fine * Abs(g.high - g.low) * 6) \div 10
              IN  [ entry |-> Some(entry), stop |-> Some(stop),
                    targets |-> << entry - ((stop - entry) * 3) \div 2,
                                   entry - (stop - entry) * 3 >> ]
         ELSE LET highs == OfType(swings, "high")
              IN  IF highs # << >>
                  THEN LET last_high == SortByIdx(highs)[Len(highs)].price
                           entry     == Fine * Min(last_high, last_close)
                           stop      == StopAbove(Fine * last_high,
                                                  (Abs(entry - Fine * last_high) * 6) \div 10)
                       IN  [ entry |-> Some(entry), stop |-> Some(stop),
                             targets |-> << entry - ((stop - entry) * 6) \div 5,
                                            entry - (stop - entry) * 2 >> ]
                  ELSE [ entry |-> Some(Fine * last_close),
                         stop |-> Some((Fine * last_close * 102) \div 100),
                         targets |-> << (Fine * last_close * 98) \div 100,
                                        (Fine * last_close * 96) \div 100 >> ]
    ELSE [ entry |-> None, stop |-> None, targets |-> << >> ]

\* round(x, 3): to the nearest 0.001, a tie to the even neighbour
Round3(x) ==
    LET q == x \div 100
        r == x % 100
    IN  IF r < 50 THEN 100 * q
        ELSE IF r > 50 THEN 100 * (q + 1)
        ELSE IF q % 2 = 0 THEN 100 * q ELSE 100 * (q + 1)

\* analyze_trade, lines 387-421: the Decision returned, or the exception
\* raised: round(None, 3) is a TypeError
MakeDecision(action, confidence, levels, bias, recent_events, score) ==
    IF levels.entry = None \/ levels.stop = None
    THEN [ raised     |-> "TypeError",
           action     |-> action,
           confidence |-> confidence,
           entry      |-> None,
           stop       |-> None,
           targets    |-> << >>,
           suggested_risk_pct |-> [ num |-> 1, den |-> 4 ],
           details    |-> [ bias |-> bias, recent_events |-> recent_events,
                            score_raw |-> score ] ]
    ELSE [ raised     |-> "none",
           action     |-> action,
           confidence |-> confidence,
           entry      |-> Some(Round3(Val(levels.entry))),
           stop       |-> Some(Round3(Val(levels.stop))),
           targets    |-> levels.targets,
           suggested_risk_pct |-> IF 6 * confidence.num >= confidence.den
                                  THEN [ num |-> 3 * confidence.num, den |-> 2 * confidence.den ]
                                  ELSE [ num |-> 1, den |-> 4 ],
           details    |-> [ bias |-> bias, recent_events |-> recent_events,
                            score_raw |-> score ] ]

\* analyze_trade, lines 223-421; a frame that is not passed (None) is
\* computed from the series (lines 236-243)
analyze_trade(self, ohlc, swings0, fvg0, bos_choch0, liquidity_clusters0) ==
    LET swings     == IF swings0 = None THEN detect_swings(self, ohlc) ELSE Val(swings0)
        fvg        == IF fvg0 = None THEN detect_fvg(ohlc) ELSE Val(fvg0)
        bos_choch  == IF bos_choch0 = None THEN detect_bos_choch(ohlc, swings)
                      ELSE Val(bos_choch0)
        clusters   == IF liquidity_clusters0 = None
                      THEN detect_liquidity_clusters(swings, self.liq_range_pct)
                      ELSE Val(liquidity_clusters0)
        n          == Len(ohlc)
        last_close == ohlc[n].close
        bias       == Bias(swings)
        recent     == RecentEvents(n, bos_choch)
        gap        == nearest_fvg(last_close, fvg, self.fvg_max_dist_pct)
        liq        == nearest_liquidity(last_close, clusters, self.liq_range_pct * 3)
        score      == Score(bias, recent, gap, liq, swings, last_close)
        confidence == Confidence(score)
        action     == Action(confidence, bias, recent)
        levels     == Levels(action, gap, swings, last_close)
    IN  MakeDecision(action, confidence, levels, bias, recent, score)

-----------------------------------------------------------------------------
(* Inputs of analyze                                                       *)

Prices == { 100 * k * Scale : k \in 1..PriceLevels }
HugeSma == 100000 * Scale      \* a moving average far above the price

OptPrice == {None, Some(0)} \cup { Some(p) : p \in Prices }
OptSma50 == {None, Some(HugeSma)} \cup { Some(p - 5 * Scale) : p \in Prices }
                                  \cup { Some(p + 5 * Scale) : p \in Prices }
OptSma200 == {None} \cup { Some(p - 5 * Scale) : p \in Prices }
                    \cup { Some(p + 5 * Scale) : p \in Prices }
OptRsi == {None, Some(20), Some(50), Some(70)}
OptMacd == {None, Some(-1), Some(0), Some(1)}
OptVol == {None, Some(0), Some(5), Some(70)}

Markets ==
    [ current_price : OptPrice, sma50 : OptSma50, sma200 : OptSma200,
      rsi_14 : OptRsi, volatility : OptVol ]
TvPretty ==
    [ price : {None} \cup { Some(p) : p \in Prices }, sma50 : {None},
      sma200 : {None}, rsi : {None}, macd : OptMacd,
      volatility : {None, Some(1)} ]

NoResult == [ raised |-> "none", trend |-> "", scenarios |-> NoScenarios ]

-----------------------------------------------------------------------------
(* Inputs of analyze_trade                                                 *)

\* Candles in cents: a narrow one, two that engulf it, one above them all
\* and one below them all, each closing at its low or at its high.
Candles ==
    { [ low |-> 1000, high |-> 1010, close |-> 1010 ],
      [ low |-> 990,  high |-> 1020, close |-> 990 ],
      [ low |-> 995,  high |-> 1030, close |-> 1030 ],
      [ low |-> 1040, high |-> 1050, close |-> 1040 ],
      [ low |-> 900,  high |-> 910,  close |-> 900 ] }

Series == UNION { [ 1..n -> Candles ] : n \in 1..MaxLen }

\* A long series: a swing high and low at candle 1, a close above that high
\* at candle 3, and from there highs and lows that rise with every candle, so
\* that no later candle is a swing.
Ramp(n) ==
    [ i \in 1..n |->
        IF i \in {1, 3} THEN [ low |-> 1000, high |-> 1010, close |-> 1010 ]
        ELSE IF i = 2 THEN [ low |-> 990, high |-> 1020, close |-> 990 ]
        ELSE [ low |-> 1020 + i, high |-> 1030 + i, close |-> 1030 + i ] ]

\* series around the length at which candle 3 leaves the recent window
LongSeries == { Ramp(n) : n \in 33..35 }

\* the series with every price multiplied by k
Times(ohlc, k) ==
    [ i \in 1..Len(ohlc) |->
        [ low |-> k * ohlc[i].low, high |-> k * ohlc[i].high, close |-> k * ohlc[i].close ] ]

\* Rising swings and then a close under the last swing low, falling swings
\* and then a close over the last swing high, and a close above a bull gap.
Retests ==
    LET A == [ low |-> 1000, high |-> 1010, close |-> 1010 ]
        B == [ low |-> 990,  high |-> 1020, close |-> 990 ]
        C == [ low |-> 995,  high |-> 1030, close |-> 1030 ]
        D == [ low |-> 1040, high |-> 1050, close |-> 1040 ]
        E == [ low |-> 900,  high |-> 910,  close |-> 900 ]
    IN  { <<A, B, A, C, A, E>>, <<A, C, A, B, A, D>>, <<B, A, D, C>> }

\* the same series at prices from which the 1e-9 of the stop is lost
HugeSeries == { Times(s, 10) : s \in Retests }

\* the swing lengths an analyzer is constructed with
SwingLengths == {1, 2}
Analyzers == { SMCAnalyzer(L) : L \in SwingLengths }

NoDecision ==
    [ raised |-> "none", action |-> "", confidence |-> [ num |-> 0, den |-> 1 ],
      entry |-> None, stop |-> None, targets |-> << >>,
      suggested_risk_pct |-> [ num |-> 0, den |-> 1 ],
      details |-> [ bias |-> "", recent_events |-> << >>,
                    score_raw |-> [ num |-> 0, den |-> 1 ] ] ]

-----------------------------------------------------------------------------
(* Frames passed to analyze_trade by its caller (lines 226-229)            *)

Swing(idx, type, price) == [ idx |-> idx, type |-> type, price |-> price ]

\* no swing, one pair, and rising and falling structures ending in a high
\* or in a low
SwingFrames ==
    { << >>,
      << Swing(1, "low", 990), Swing(2, "high", 1020) >>,
      << Swing(1, "low", 990), Swing(2, "high", 1020),
         Swing(3, "low", 995), Swing(4, "high", 1030) >>,
      << Swing(1, "high", 1020), Swing(2, "low", 990),
         Swing(3, "high", 1030), Swing(4, "low", 995) >>,
      << Swing(1, "low", 980), Swing(2, "high", 1015),
         Swing(3, "low", 990), Swing(4, "high", 1020) >>,
      << Swing(1, "high", 1030), Swing(2, "low", 995),
         Swing(3, "high", 1020), Swing(4, "low", 990) >>,
      << Swing(1, "low", 995), Swing(2, "high", 1030),
         Swing(3, "low", 990), Swing(4, "high", 1020) >> }

\* no gap, a bull gap centred on 1010, a bear gap centred on 990
GapFrames ==
    { << >>,
      << [ start_idx |-> 0, end_idx |-> 2, type |-> "bull", low |-> 1000, high |-> 1020 ] >>,
      << [ start_idx |-> 0, end_idx |-> 2, type |-> "bear", low |-> 980, high |-> 1000 ] >> }

EventTypes == <<"BOS_high", "BOS_low", "CHOCH_bear", "CHOCH_bull">>

\* the events of the types in T, all at candle 0
EventFrame(T) ==
    LET Chosen(ty) == ty \in T
        types      == SelectSeq(EventTypes, Chosen)
    IN  [ k \in 1..Len(types) |->
            [ idx |-> 0, type |-> types[k], price |-> 1010, ref_idx |-> None ] ]

EventFrames == { EventFrame(T) : T \in SUBSET { EventTypes[k] : k \in 1..Len(EventTypes) } }

\* no cluster, a cluster of two highs, a cluster of two lows
ClusterFrames ==
    { << >>,
      << [ mean_price |-> [ num |-> 2050, den |-> 2 ], size |-> 2,
           members_idx |-> <<2, 4>>, types |-> <<"high", "high">> ] >>,
      << [ mean_price |-> [ num |-> 1985, den |-> 2 ], size |-> 2,
           members_idx |-> <<1, 3>>, types |-> <<"low", "low">> ] >> }

SuppliedFrames ==
    { [ swings |-> Some(sw), fvg |-> Some(g), bos_choch |-> Some(ev),
        liquidity_clusters |-> Some(lc) ] :
        sw \in SwingFrames, g \in GapFrames, ev \in EventFrames, lc \in ClusterFrames }

\* the series passed along with the frames: one candle, read for its close
StageSeries == [ 1..1 -> Candles ]

\* an analyzer constructed with fvg_max_dist_pct = 0.10, for which a gap
\* further than 0.04 from the close still counts as near
WideAnalyzer == [ Analyzer EXCEPT !.fvg_max_dist_pct = 10 ]
StageAnalyzers == {Analyzer, WideAnalyzer}

-----------------------------------------------------------------------------
(* The two analyzers share nothing: each specification runs one of them    *)
(* and leaves the other's variables as they are.                           *)

IdleClassic == market = [ current_price |-> None, sma50 |-> None, sma200 |-> None,
                          rsi_14 |-> None, volatility |-> None ]
               /\ tv = [ price |-> None, sma50 |-> None, sma200 |-> None,
                         rsi |-> None, macd |-> None, volatility |-> None ]
               /\ pc = "idle"
               /\ result = NoResult

\* analyze_trade(ohlc): no frame is passed
NoneSupplied == [ swings |-> None, fvg |-> None, bos_choch |-> None,
                  liquidity_clusters |-> None ]

IdleSMC == series = << >> /\ spc = "idle" /\ decision = NoDecision
                         /\ analyzer = Analyzer /\ supplied = NoneSupplied

IdleTasks == tasks = << >>

\* no users_db.json yet and no update being handled
IdleBot == db = << >> /\ updates = << >>

Init ==
    /\ market \in Markets
    /\ tv \in TvPretty
    /\ pc = "call"
    /\ result = NoResult
    /\ IdleSMC
    /\ IdleTasks
    /\ IdleBot

\* One invocation of ClassicalAnalyst.analyze on the snapshot.
DoAnalyze ==
    /\ pc = "call"
    /\ result' = Analyze(market, tv)
    /\ pc' = "done"
    /\ UNCHANGED <<market, tv, series, spc, decision, analyzer, supplied, tasks, db, updates>>

Next == DoAnalyze

Spec == Init /\ [][Next]_vars

InitSMC ==
    /\ series \in Series \cup LongSeries \cup HugeSeries
    /\ spc = "call"
    /\ decision = NoDecision
    /\ analyzer \in Analyzers
    /\ supplied = NoneSupplied
    /\ IdleClassic
    /\ IdleTasks
    /\ IdleBot

\* One invocation of SMCAnalyzer.analyze_trade on the series.
DoAnalyzeTrade ==
    /\ spc = "call"
    /\ decision' = analyze_trade(analyzer, series, supplied.swings, supplied.fvg,
                                  supplied.bos_choch, supplied.liquidity_clusters)
    /\ spc' = "done"
    /\ UNCHANGED <<series, analyzer, supplied, market, tv, pc, result, tasks, db, updates>>

NextSMC == DoAnalyzeTrade

SpecSMC == InitSMC /\ [][NextSMC]_vars

\* analyze_trade called with all four frames passed by the caller
InitStages ==
    /\ series \in StageSeries
    /\ spc = "call"
    /\ decision = NoDecision
    /\ analyzer \in StageAnalyzers
    /\ supplied \in SuppliedFrames
    /\ IdleClassic
    /\ IdleTasks
    /\ IdleBot

SpecStages == InitStages /\ [][NextSMC]_vars

-----------------------------------------------------------------------------
(* Concurrent invocations.  Each caller passes its own arguments; the      *)
(* SMCAnalyzer instance is shared.  analyze_trade is left and resumed at   *)
(* each of its awaits (lines 237-243), everything it computes is kept in   *)
(* locals of the invocation; analyze has no await.                         *)

\* series passed by the callers: one that ends in a buy, one crossed by a
\* falling close, one too short for anything
ConcSeries ==
    { << [ low |-> 990,  high |-> 1020, close |-> 990 ],
         [ low |-> 1000, high |-> 1010, close |-> 1010 ],
         [ low |-> 1040, high |-> 1050, close |-> 1040 ],
         [ low |-> 995,  high |-> 1030, close |-> 1030 ] >>,
      << [ low |-> 1000, high |-> 1010, close |-> 1010 ],
         [ low |-> 990,  high |-> 1020, close |-> 990 ],
         [ low |-> 1000, high |-> 1010, close |-> 1010 ],
         [ low |-> 900,  high |-> 910,  close |-> 900 ] >>,
      << [ low |-> 1000, high |-> 1010, close |-> 1010 ] >> }

\* snapshots passed by the callers: one with a price, one without
ConcSnapshots ==
    { [ market |-> [ current_price |-> Some(100 * Scale), sma50 |-> Some(105 * Scale),
                     sma200 |-> Some(95 * Scale), rsi_14 |-> Some(50),
                     volatility |-> Some(5) ],
        tv     |-> [ price |-> None, sma50 |-> None, sma200 |-> None, rsi |-> None,
                     macd |-> Some(1), volatility |-> None ] ],
      [ market |-> [ current_price |-> None, sma50 |-> Some(105 * Scale),
                     sma200 |-> Some(95 * Scale), rsi_14 |-> None,
                     volatility |-> None ],
        tv     |-> [ price |-> None, sma50 |-> None, sma200 |-> None, rsi |-> None,
                     macd |-> None, volatility |-> None ] ] }

\* an invocation before its first step
NewTask(kind, ohlc, snapshot) ==
    [ kind |-> kind, pc |-> "start", ohlc |-> ohlc, snapshot |-> snapshot,
      swings |-> None, fvg |-> None, bos_choch |-> None, liquidity_clusters |-> None,
      decision |-> NoDecision, result |-> NoResult ]

NoSnapshot == CHOOSE x \in ConcSnapshots : x.market.current_price = None

NewTasks ==
    { NewTask("analyze_trade", o, NoSnapshot) : o \in ConcSeries }
    \cup { NewTask("analyze", << >>, x) : x \in ConcSnapshots }

InitConc ==
    /\ tasks \in [ 1..MaxTasks -> NewTasks ]
    /\ analyzer \in Analyzers
    /\ series = << >> /\ spc = "idle" /\ decision = NoDecision
    /\ supplied = NoneSupplied
    /\ IdleClassic
    /\ IdleBot

Others == <<market, tv, pc, result, series, spc, decision, supplied, db, updates>>

AwaitSwingsOnSelf(t) ==
    /\ tasks[t].kind = "analyze_trade" /\ tasks[t].pc = "start"
    /\ LET found == Some(detect_swings(analyzer, tasks[t].ohlc))
       IN  tasks' = [ u \in DOMAIN tasks |->
                        IF u = t THEN [ tasks[t] EXCEPT !.swings = found, !.pc = "fvg" ]
                        ELSE IF tasks[u].swings # None
                        THEN [ tasks[u] EXCEPT !.swings = found ]
                        ELSE tasks[u] ]
    /\ UNCHANGED <<analyzer, Others>>

\* swings = await self.detect_swings(ohlc)  (line 237)
AwaitSwings(t) ==
    /\ tasks[t].kind = "analyze_trade" /\ tasks[t].pc = "start"
    /\ tasks' = [ tasks EXCEPT ![t].swings = Some(detect_swings(analyzer, tasks[t].ohlc)),
                                ![t].pc = "fvg" ]
    /\ UNCHANGED <<analyzer, Others>>

\* fvg = await self.detect_fvg(ohlc)  (line 239)
AwaitFvg(t) ==
    /\ tasks[t].kind = "analyze_trade" /\ tasks[t].pc = "fvg"
    /\ tasks' = [ tasks EXCEPT ![t].fvg = Some(detect_fvg(tasks[t].ohlc)),
                                ![t].pc = "bos_choch" ]
    /\ UNCHANGED <<analyzer, Others>>

\* bos_choch = await self.detect_bos_choch(ohlc, swings)  (line 241)
AwaitBosChoch(t) ==
    /\ tasks[t].kind = "analyze_trade" /\ tasks[t].pc = "bos_choch"
    /\ tasks' = [ tasks EXCEPT
           ![t].bos_choch = Some(detect_bos_choch(tasks[t].ohlc, Val(tasks[t].swings))),
           ![t].pc = "liquidity_clusters" ]
    /\ UNCHANGED <<analyzer, Others>>

\* liquidity_clusters = await self.detect_liquidity_clusters(swings, ...)  (line 243)
AwaitClusters(t) ==
    /\ tasks[t].kind = "analyze_trade" /\ tasks[t].pc = "liquidity_clusters"
    /\ tasks' = [ tasks EXCEPT
           ![t].liquidity_clusters =
               Some(detect_liquidity_clusters(Val(tasks[t].swings), analyzer.liq_range_pct)),
           ![t].pc = "decide" ]
    /\ UNCHANGED <<analyzer, Others>>

\* lines 245-421 on the frames held by the invocation
Decide(t) ==
    /\ tasks[t].kind = "analyze_trade" /\ tasks[t].pc = "decide"
    /\ tasks' = [ tasks EXCEPT
           ![t].decision = analyze_trade(analyzer, tasks[t].ohlc, tasks[t].swings,
                                         tasks[t].fvg, tasks[t].bos_choch,
                                         tasks[t].liquidity_clusters),
           ![t].pc = "done" ]
    /\ UNCHANGED <<analyzer, Others>>

\* ClassicalAnalyst.analyze, lines 35-195
AnalyzeSnapshot(t) ==
    /\ tasks[t].kind = "analyze" /\ tasks[t].pc = "start"
    /\ tasks' = [ tasks EXCEPT
           ![t].result = Analyze(tasks[t].snapshot.market, tasks[t].snapshot.tv),
           ![t].pc = "done" ]
    /\ UNCHANGED <<analyzer, Others>>

NextConc ==
    \E t \in DOMAIN tasks :
        \/ AwaitSwings(t)
        \/ AwaitFvg(t)
        \/ AwaitBosChoch(t)
        \/ AwaitClusters(t)
        \/ Decide(t)
        \/ AnalyzeSnapshot(t)

SpecConc == InitConc /\ [][NextConc]_vars

-----------------------------------------------------------------------------
(* The bot's free-request quota (main.py).  db is the content of           *)
(* users_db.json, a record per known user id; the time stamps first_seen   *)
(* and last_request are left out.  The database functions contain no await *)
(* and run in one piece; a handler is left and resumed at each of its      *)
(* awaits.  An update is handled by handle_message, spot, futures or       *)
(* analysis; the three commands differ from handle_message by the test of  *)
(* context.args.                                                           *)

FREE_REQUESTS == 10

\* get_user_data, lines 33-47: the database after the call; the user's data
\* is its entry for user_id
get_user_data(d, user_id) ==
    IF user_id \in DOMAIN d THEN d
    ELSE [ x \in DOMAIN d \cup {user_id} |->
             IF x = user_id THEN [ requests_used |-> 0, is_subscribed |-> FALSE ]
             ELSE d[x] ]

\* update_user_usage, lines 51-61: the database after the call
update_user_usage(d, user_id) ==
    IF user_id \in DOMAIN d
    THEN [ d EXCEPT ![user_id].requests_used = @ + 1 ]
    ELSE d

\* check_user_limit, lines 64-74: has_access, and the database after the call
check_user_limit(d, user_id) ==
    LET after     == get_user_data(d, user_id)
        user_data == after[user_id]
    IN  [ db         |-> after,
          has_access |-> user_data.is_subscribed
                         \/ FREE_REQUESTS - user_data.requests_used > 0 ]

\* get_usage_message, lines 77-85: the database after the call
get_usage_message(d, user_id) == get_user_data(d, user_id)

UserIds == {1}
HandlerNames == {"handle_message", "spot", "futures", "analysis"}

\* an update on its way to its handler; only the commands read context.args
Update(handler, user_id, has_args) ==
    [ handler |-> handler, user_id |-> user_id, has_args |-> has_args, pc |-> "start" ]
Updates ==
    { Update(h, u, a) : h \in HandlerNames, u \in UserIds, a \in BOOLEAN }
        \ { Update("handle_message", u, FALSE) : u \in UserIds }

\* users_db.json as the bot finds it: no user yet, a user with free requests
\* left, with one left, with none left, and a subscriber
Databases ==
    { << >> } \cup
    { [ u \in UserIds |-> [ requests_used |-> k, is_subscribed |-> FALSE ] ] :
        k \in {0, FREE_REQUESTS - 1, FREE_REQUESTS} } \cup
    { [ u \in UserIds |-> [ requests_used |-> FREE_REQUESTS, is_subscribed |-> TRUE ] ] }

InitQuota ==
    /\ db \in Databases
    /\ updates \in UNION { [ 1..n -> Updates ] : n \in 1..MaxUpdates }
    /\ IdleClassic
    /\ IdleSMC
    /\ IdleTasks

NotBot == <<market, tv, pc, result, series, spc, decision, analyzer, supplied, tasks>>

\* the handler up to its first await (lines 111-122, 140-155): the limit is
\* checked, then a reply is sent
CheckLimit(h) ==
    /\ updates[h].pc = "start"
    /\ LET checked == check_user_limit(db, updates[h].user_id)
       IN  /\ db' = checked.db
           /\ updates' = [ updates EXCEPT ![h].pc =
                             IF ~checked.has_access THEN "rejected"
                             ELSE IF updates[h].handler # "handle_message"
                                     /\ ~updates[h].has_args THEN "no_args"
                             ELSE "analyzing" ]
    /\ UNCHANGED NotBot

\* the reply to a rejected request or to a command without a coin has been
\* sent: the handler returns (lines 119, 148, 152)
Return(h) ==
    /\ updates[h].pc \in {"rejected", "no_args"}
    /\ updates' = [ updates EXCEPT ![h].pc = "done" ]
    /\ UNCHANGED <<db, NotBot>>

\* "Analyzing..." has been sent: await agent.process_query (lines 125, 158)
StartQuery(h) ==
    /\ updates[h].pc = "analyzing"
    /\ updates' = [ updates EXCEPT ![h].pc = "process_query" ]
    /\ UNCHANGED <<db, NotBot>>

\* process_query has returned: the usage is counted and the answer sent
\* (lines 126-130, 159-163)
QueryReturns(h) ==
    /\ updates[h].pc = "process_query"
    /\ db' = get_usage_message(update_user_usage(db, updates[h].user_id),
                               updates[h].user_id)
    /\ updates' = [ updates EXCEPT ![h].pc = "done" ]
    /\ UNCHANGED NotBot

\* process_query has raised: the error is reported (lines 131-133, 164-165)
QueryRaises(h) ==
    /\ updates[h].pc = "process_query"
    /\ updates' = [ updates EXCEPT ![h].pc = "done" ]
    /\ UNCHANGED <<db, NotBot>>

NextQuota ==
    \E h \in DOMAIN updates :
        \/ CheckLimit(h)
        \/ Return(h)
        \/ StartQuery(h)
        \/ QueryReturns(h)
        \/ QueryRaises(h)

SpecQuota == InitQuota /\ [][NextQuota]_vars

-----------------------------------------------------------------------------
(* Claims about ClassicalAnalyst.analyze                                   *)

Ind == Indicators(market, tv)
HasPrice == Truthy(Ind.current_price)
Returned == pc = "done" /\ result.raised = "none"
Got == Returned /\ HasPrice
Scen(kind, dir) == result.scenarios[kind][dir]
Kinds == {"spot", "futures"}
Dirs == {"long", "short"}

\* C1: whenever a current price is available, analyze returns normally and
\* its result holds all four scenarios, spot and futures, long and short.
C1_AllFourScenarios ==
    (pc = "done" /\ HasPrice) =>
        /\ result.raised = "none"
        /\ DOMAIN result.scenarios = Kinds
        /\ \A k \in Kinds : DOMAIN result.scenarios[k] = Dirs

\* C2: without a current price analyze does not raise and returns trend
\* "unknown" with an empty scenarios mapping; with a current price a returned
\* result never has trend "unknown" nor an empty scenarios mapping.
C2_SentinelOnlyWithoutPrice ==
    /\ (pc = "done" /\ ~HasPrice) =>
           /\ result.raised = "none"
           /\ result.trend = "unknown"
           /\ DOMAIN result.scenarios = {}
    /\ Got => (result.trend # "unknown" /\ DOMAIN result.scenarios # {})

C2_Witness ==
    pc = "done" /\ ~HasPrice /\ market.current_price = Some(0)
                /\ result.trend = "unknown"

\* C3: with a current price the returned trend is bullish when sma50 > sma200,
\* bearish when sma50 < sma200, and neutral when either average is missing or
\* they are equal, whatever rsi, macd, volatility and the price are.
C3_TrendFromAverages ==
    Got =>
        LET have == Truthy(Ind.sma50) /\ Truthy(Ind.sma200)
        IN  /\ (have /\ Val(Ind.sma50) > Val(Ind.sma200)) => result.trend = "bullish"
            /\ (have /\ Val(Ind.sma50) < Val(Ind.sma200)) => result.trend = "bearish"
            /\ (~have \/ Val(Ind.sma50) = Val(Ind.sma200)) => result.trend = "neutral"

C3_Witness ==
    Got /\ result.trend = "bearish" /\ Ind.rsi = None /\ Ind.macd_val = Some(1)

\* C4: in every returned scenario whose targets are present the targets are
\* strictly ordered, TP1 < TP2 < TP3 for a long and TP1 > TP2 > TP3 for a short.
C4_TargetsOrdered ==
    Got => \A k \in Kinds :
        /\ LET t == Scen(k, "long").targets
           IN  t # None => (t[1] < t[2] /\ t[2] < t[3])
        /\ LET t == Scen(k, "short").targets
           IN  t # None => (t[1] > t[2] /\ t[2] > t[3])

C4_Witness ==
    Got /\ \A k \in Kinds : \A d \in Dirs : Scen(k, d).targets # None

\* C5: in each of the four returned scenarios the three targets lie on the
\* trade's side of the entry, above it for a long and below it for a short,
\* at strictly increasing distance |TP1 - entry| < |TP2 - entry| < |TP3 - entry|.
C5_TargetsBeyondEntry ==
    Got => \A k \in Kinds : \A d \in Dirs :
        LET s == Scen(k, d)
            t == s.targets
        IN  /\ t # None
            /\ \A i \in 1..3 : IF d = "long" THEN t[i] > s.entry ELSE t[i] < s.entry
            /\ Abs(t[1] - s.entry) < Abs(t[2] - s.entry)
            /\ Abs(t[2] - s.entry) < Abs(t[3] - s.entry)

\* C6: the futures scenario has the entry of its spot scenario, its stop lies
\* on the same side of the entry, and its stop distance is exactly 0.7 times
\* the spot stop distance, hence strictly smaller.
C6_FuturesStopTightened ==
    Got => \A d \in Dirs :
        LET s  == Scen("spot", d)
            f  == Scen("futures", d)
            ds == s.stop_loss - s.entry
            df == f.stop_loss - f.entry
        IN  /\ f.entry = s.entry
            /\ 10 * Abs(df) = 7 * Abs(ds)
            /\ (ds < 0) = (df < 0)
            /\ Abs(df) < Abs(ds)

C6_Witness ==
    Got /\ Scen("spot", "long").stop_loss = 0
        /\ Scen("futures", "long").stop_loss > 0
        /\ Scen("futures", "short").stop_loss > Scen("futures", "short").entry

C8_Snapshot ==
    /\ Ind.current_price = Some(100 * Scale)
    /\ Ind.sma50 = Some(105 * Scale)
    /\ Ind.sma200 = Some(95 * Scale)
    /\ Ind.rsi = Some(50)
    /\ Ind.macd_val = Some(1)
    /\ Ind.volatility = Some(5)

C8_EndToEnd ==
    (pc = "done" /\ C8_Snapshot) =>
        /\ result.raised = "none"
        /\ result.trend = "bullish"
        /\ 2 * Scen("spot", "long").entry = 200 * Scale
        /\ 2 * Scen("spot", "long").stop_loss = 185 * Scale
        /\ Scen("spot", "long").targets # None
        /\ 2 * Scen("spot", "long").targets[1] = 215 * Scale
        /\ 2 * Scen("spot", "long").targets[2] = 230 * Scale
        /\ 2 * Scen("spot", "long").targets[3] = 245 * Scale

C8_Witness == pc = "done" /\ C8_Snapshot /\ result.trend = "bullish"

\* C9: when a scenario's entry equals its stop the target set of that scenario
\* is null and nothing is raised: the spot scenario and the futures variant
\* derived from it are built and analyze returns.
C9_ZeroRiskNoFault ==
    (pc = "done" /\ HasPrice) =>
        \A s \in {SpotLong(Ind), SpotShort(Ind)} :
            s.entry = s.stop_loss => (s.targets = None /\ result.raised = "none")

\* the quantities the spot derivations are stated in
Price == Val(Ind.current_price)
Vol == IF Truthy(Ind.volatility) THEN Val(Ind.volatility) ELSE 3
ClaimedOffset == (3 * Vol * Price) \div 200        \* 1.5 * volatility * price
HasSma50 == Truthy(Ind.sma50)
RsiInside == Truthy(Ind.rsi) /\ 30 < Val(Ind.rsi) /\ Val(Ind.rsi) < 70
MacdAbove == Truthy(Ind.macd_val) /\ Val(Ind.macd_val) > 0
MacdBelow == Truthy(Ind.macd_val) /\ Val(Ind.macd_val) < 0

\* C18: the spot long enters at the current price in a bullish trend with
\* confirmed momentum (macd > 0, or 30 < rsi < 70, or no sma50) and at sma50
\* otherwise; in any other trend at sma50 if present, else at 0.99 times the
\* price; its stop is max(0, entry - offset), offset = 1.5 * volatility *
\* price with volatility 0.03 when absent.
C18_SpotLongDerivation ==
    Got =>
        LET s == Scen("spot", "long")
        IN  /\ result.trend = "bullish" =>
                   s.entry = IF MacdAbove \/ RsiInside \/ ~HasSma50
                             THEN Price ELSE Val(Ind.sma50)
            /\ (result.trend # "bullish" /\ HasSma50) => s.entry = Val(Ind.sma50)
            /\ (result.trend # "bullish" /\ ~HasSma50) => 100 * s.entry = 99 * Price
            /\ 200 * ClaimedOffset = 3 * Vol * Price
            /\ s.stop_loss = Max(0, s.entry - ClaimedOffset)

\* a bullish trend without momentum: the entry is sma50
C18_Witness ==
    Got /\ result.trend = "bullish" /\ ~MacdAbove /\ ~RsiInside
        /\ Scen("spot", "long").entry = Val(Ind.sma50)
        /\ Scen("spot", "long").entry # Price
        /\ Scen("spot", "long").stop_loss > 0

\* C19 as stated: the spot short enters at the current price in a bearish
\* trend with confirmed momentum (macd < 0, or 30 < rsi < 70) and at sma50
\* otherwise; in any other trend at 1.01 times sma50; its stop is entry +
\* offset.
C19_ShortFallbackScaledSma ==
    Got =>
        LET s == Scen("spot", "short")
        IN  /\ result.trend = "bearish" =>
                   s.entry = IF MacdBelow \/ RsiInside THEN Price ELSE Val(Ind.sma50)
            /\ (result.trend # "bearish" /\ HasSma50) =>
                   100 * s.entry = 101 * Val(Ind.sma50)
            /\ s.stop_loss = s.entry + ClaimedOffset

\* C19 as amended: in a trend that is not bearish the spot short enters at
\* sma50 itself if present, else at 1.01 times the current price; the rest
\* as stated.
C19_ShortFallbackSmaOrPrice ==
    Got =>
        LET s == Scen("spot", "short")
        IN  /\ result.trend = "bearish" =>
                   s.entry = IF MacdBelow \/ RsiInside THEN Price ELSE Val(Ind.sma50)
            /\ (result.trend # "bearish" /\ HasSma50) => s.entry = Val(Ind.sma50)
            /\ (result.trend # "bearish" /\ ~HasSma50) => 100 * s.entry = 101 * Price
            /\ s.stop_loss = s.entry + ClaimedOffset

C19_Witness ==
    Got /\ result.trend # "bearish" /\ HasSma50
        /\ Scen("spot", "short").entry = Val(Ind.sma50)
        /\ Scen("spot", "short").stop_loss > Scen("spot", "short").entry

-----------------------------------------------------------------------------
(* Claims about SMCAnalyzer.analyze_trade                                  *)

\* what the detectors return for the series
Swings == detect_swings(analyzer, series)
Gaps == detect_fvg(series)
Events == detect_bos_choch(series, Swings)
Clusters == detect_liquidity_clusters(Swings, analyzer.liq_range_pct)
N == Len(series)
L == analyzer.swing_length

\* C10: analyze_trade returns a Decision for each of the three actions; a
\* hold Decision has entry and stop undefined and no targets, a buy or sell
\* Decision has a defined entry, a defined stop and at least one target.
C10_LevelsFollowAction ==
    spc = "done" =>
        /\ decision.raised = "none"
        /\ decision.action \in {"buy", "sell", "hold"}
        /\ decision.action = "hold" =>
               (decision.entry = None /\ decision.stop = None /\ decision.targets = << >>)
        /\ decision.action \in {"buy", "sell"} =>
               (decision.entry # None /\ decision.stop # None /\ decision.targets # << >>)

\* C11: on a series too short for any swing (fewer than 2 * swing_length + 1
\* candles) every detector returns an empty frame, the bias is neutral and
\* analyze_trade returns a hold Decision without raising.
C11_ShortSeriesHolds ==
    (spc = "done" /\ N < 2 * L + 1) =>
        /\ Swings = << >>
        /\ Gaps = << >>
        /\ Events = << >>
        /\ Clusters = << >>
        /\ decision.details.bias = "neutral"
        /\ decision.action = "hold"
        /\ decision.raised = "none"

-----------------------------------------------------------------------------
(* Claims about the detectors                                              *)

Rows(frame) == { frame[k] : k \in 1..Len(frame) }
HighOf(i) == series[i + 1].high
LowOf(i) == series[i + 1].low
CloseOf(i) == series[i + 1].close

\* C14: every swing index i has i - L >= 0 and i + L <= N - 1, a swing high
\* carries the greatest high and a swing low the least low of the closed
\* window [i - L, i + L].
C14_SwingsInsideBoundary ==
    spc = "done" =>
        \A r \in Rows(Swings) :
            /\ r.idx - L >= 0
            /\ r.idx + L <= N - 1
            /\ r.type \in {"high", "low"}
            /\ r.type = "high" =>
                   /\ r.price = HighOf(r.idx)
                   /\ \A j \in (r.idx - L)..(r.idx + L) : HighOf(j) <= r.price
            /\ r.type = "low" =>
                   /\ r.price = LowOf(r.idx)
                   /\ \A j \in (r.idx - L)..(r.idx + L) : LowOf(j) >= r.price

\* a high and a low reported at the same index
C14_Witness ==
    spc = "done" /\ \E a, b \in Rows(Swings) :
        a.idx = b.idx /\ a.type = "high" /\ b.type = "low"

\* C15 as stated: a series of at most 2 * swing_length + 1 candles has no
\* swing point.
C15_NoSwingUpToWindow ==
    (spc = "done" /\ N <= 2 * L + 1) => Swings = << >>

\* C15 as amended: a series of fewer than 2 * swing_length + 1 candles has
\* no swing point; with exactly 2 * swing_length + 1 candles the middle one,
\* and only it, is a swing high when its high is the greatest of the series
\* and a swing low when its low is the least.
C15_NoSwingBelowWindow ==
    spc = "done" =>
        /\ N < 2 * L + 1 => Swings = << >>
        /\ N = 2 * L + 1 =>
               /\ \A r \in Rows(Swings) : r.idx = L
               /\ (\A j \in 0..(N - 1) : HighOf(j) <= HighOf(L))
                      <=> (\E r \in Rows(Swings) : r.type = "high")
               /\ (\A j \in 0..(N - 1) : LowOf(j) >= LowOf(L))
                      <=> (\E r \in Rows(Swings) : r.type = "low")

C15_Witness == spc = "done" /\ N = 2 * L + 1 /\ L = 2 /\ Swings # << >>

\* the gaps of the series by the rule of the claim
BullGaps ==
    { [ start_idx |-> i, end_idx |-> i + 2, type |-> "bull",
        low |-> HighOf(i), high |-> LowOf(i + 2) ] :
      i \in { j \in 0..(N - 3) : HighOf(j) < LowOf(j + 2) } }
BearGaps ==
    { [ start_idx |-> i, end_idx |-> i + 2, type |-> "bear",
        low |-> HighOf(i + 2), high |-> LowOf(i) ] :
      i \in { j \in 0..(N - 3) : LowOf(j) > HighOf(j + 2) } }

\* high[0] = 100, low[0] = 95, any candle 1, low[2] = 110
GapExample ==
    \A c \in Candles :
        detect_fvg(<< [ low |-> 9500, high |-> 10000, close |-> 10000 ], c,
                      [ low |-> 11000, high |-> 11500, close |-> 11000 ] >>)
        = << [ start_idx |-> 0, end_idx |-> 2, type |-> "bull",
               low |-> 10000, high |-> 11000 ] >>

\* C16: detect_fvg reports for 0 <= i <= N - 3 a bull gap [high[i], low[i+2]]
\* exactly when high[i] < low[i+2], a bear gap [high[i+2], low[i]] exactly
\* when low[i] > high[i+2], each once, and nothing else; high[0] = 100 and
\* low[2] = 110 give a bull gap with low 100 and high 110.
C16_GapsByRule ==
    /\ spc = "done" =>
           /\ Rows(Gaps) = BullGaps \cup BearGaps
           /\ Len(Gaps) = Cardinality(BullGaps \cup BearGaps)
    /\ GapExample

C16_Witness ==
    spc = "done" /\ \E a, b \in Rows(Gaps) : a.type = "bull" /\ b.type = "bear"

\* the swing of a type with the greatest index
LatestSwing(ty) ==
    CHOOSE r \in Rows(Swings) :
        r.type = ty /\ \A q \in Rows(Swings) : q.type = ty => q.idx <= r.idx
HasSwing(ty) == \E r \in Rows(Swings) : r.type = ty
InRecentWindow(i) == i >= N - 30 /\ i >= 0 /\ i <= N - 1
BosAt(ty, i) == { k \in 1..Len(Events) : Events[k].type = ty /\ Events[k].idx = i }

-----------------------------------------------------------------------------
(* Claims about the scoring, with the frames passed by the caller          *)

RawScore == decision.details.score_raw
Conf == decision.confidence
LastClose == series[Len(series)].close
GivenSwings == Val(supplied.swings)
NearGap == nearest_fvg(LastClose, Val(supplied.fvg), analyzer.fvg_max_dist_pct)
NearLiq == nearest_liquidity(LastClose, Val(supplied.liquidity_clusters),
                             analyzer.liq_range_pct * 3)

\* confidence = max(0, min(1, raw score))
ClampedToUnit ==
    /\ 0 <= Conf.num /\ Conf.num <= Conf.den /\ Conf.den = RawScore.den
    /\ RawScore.num > RawScore.den => Conf.num = Conf.den
    /\ RawScore.num < 0 => Conf.num = 0
    /\ (0 <= RawScore.num /\ RawScore.num <= RawScore.den) => Conf.num = RawScore.num

\* the stacking of the example: bull bias, CHOCH_bull, BOS_high and an
\* aligned bull gap worth its full 0.12, nothing else contributing
StackedBull ==
    /\ spc = "done"
    /\ decision.details.bias = "bull"
    /\ decision.details.recent_events = <<"BOS_high", "CHOCH_bull">>
    /\ NearGap.rec # None /\ Val(NearGap.rec).type = "bull" /\ Val(NearGap.dist).num = 0
    /\ NearLiq.rec = None
    /\ SwingScore("bull", GivenSwings, LastClose) = 0

\* C12 as stated: the confidence of every Decision is the raw score clamped
\* to [0, 1], and the stacked example has raw score 1.04 and confidence 1.0.
C12_ClampedExample104 ==
    /\ spc = "done" => ClampedToUnit
    /\ StackedBull => (100 * RawScore.num = 104 * RawScore.den /\ Conf.num = Conf.den)

\* C12 as amended: the confidence of every Decision is the raw score clamped
\* to [0, 1], and the stacked example has raw score 1.14 and confidence 1.0.
C12_ClampedExample114 ==
    /\ spc = "done" => ClampedToUnit
    /\ StackedBull => (100 * RawScore.num = 114 * RawScore.den /\ Conf.num = Conf.den)

C12_Witness == StackedBull /\ decision.raised = "none" /\ RawScore.num > RawScore.den

\* C13: the action is hold exactly when 0.38 < confidence < 0.62; from 0.62
\* up it is buy, except sell when the bias is bear with no recent CHOCH_bull;
\* from 0.38 down it is sell, except buy when the bias is bull with no recent
\* CHOCH_bear; 0.62 and 0.38 themselves belong to the buy/sell branches.
C13_ActionFromConfidence ==
    spc = "done" =>
        LET high == 100 * Conf.num >= 62 * Conf.den
            low  == 100 * Conf.num <= 38 * Conf.den
            bias == decision.details.bias
            ev   == decision.details.recent_events
        IN  /\ (decision.action = "hold") <=> (~high /\ ~low)
            /\ high => decision.action =
                          IF bias = "bear" /\ ~Has(ev, "CHOCH_bull") THEN "sell" ELSE "buy"
            /\ low => decision.action =
                          IF bias = "bull" /\ ~Has(ev, "CHOCH_bear") THEN "buy" ELSE "sell"

C13_Witness ==
    /\ spc = "done" /\ decision.raised = "none" /\ decision.action = "sell"
    /\ 100 * Conf.num >= 62 * Conf.den
    /\ decision.details.bias = "bear"
    /\ ~Has(decision.details.recent_events, "CHOCH_bull")

-----------------------------------------------------------------------------
(* Claims about concurrent invocations                                     *)

\* what an invocation alone returns for the arguments of task t
Alone(t) ==
    IF tasks[t].kind = "analyze_trade"
    THEN [ decision |-> analyze_trade(analyzer, tasks[t].ohlc, None, None, None, None),
           result   |-> NoResult ]
    ELSE [ decision |-> NoDecision,
           result   |-> Analyze(tasks[t].snapshot.market, tasks[t].snapshot.tv) ]

ReturnsAsAlone ==
    \A t \in DOMAIN tasks :
        tasks[t].pc = "done" =>
            /\ tasks[t].decision = Alone(t).decision
            /\ tasks[t].result = Alone(t).result

LeavesSharedAlone ==
    /\ analyzer' = analyzer
    /\ DOMAIN tasks' = DOMAIN tasks
    /\ \A t \in DOMAIN tasks :
           /\ tasks'[t].ohlc = tasks[t].ohlc
           /\ tasks'[t].snapshot = tasks[t].snapshot

\* C17: under every interleaving each invocation returns what it returns
\* alone on the same arguments, and no step changes the analyzer's
\* swing_length, fvg_max_dist_pct, liq_range_pct or any caller's input data.
C17_Independent == []ReturnsAsAlone /\ [][LeavesSharedAlone]_vars

\* a Decision returned while another invocation with another series is in
\* flight on the same analyzer
C17_Witness ==
    \E t, u \in DOMAIN tasks :
        /\ tasks[t].kind = "analyze_trade" /\ tasks[t].pc = "done"
        /\ tasks[t].decision.raised = "none"
        /\ tasks[u].kind = "analyze_trade"
        /\ tasks[u].pc \in {"bos_choch", "liquidity_clusters", "decide"}
        /\ tasks[u].ohlc # tasks[t].ohlc
        /\ tasks[u].swings # tasks[t].swings

-----------------------------------------------------------------------------
(* Claims about the structure events and the bias                          *)

\* the last 6 swing points, and their highs and lows in index order
LastSix == LastRows(Swings, 6)
SixHighs == Prices_of(OfType(LastSix, "high"))
SixLows == Prices_of(OfType(LastSix, "low"))
TwoOfEach == Len(SixHighs) >= 2 /\ Len(SixLows) >= 2
Latest(p) == p[Len(p)]
Previous(p) == p[Len(p) - 1]
Choch(ty) == { k \in 1..Len(Events) : Events[k].type = ty }

\* C21: CHOCH_bear is emitted, once and at the final index, exactly when the
\* last 6 swings hold two highs and two lows with the latest high below the
\* previous high and the latest low below the previous low; CHOCH_bull
\* exactly when both are above their predecessors; otherwise no CHOCH event.
C21_ChochFromLastSix ==
    spc = "done" =>
        /\ Choch("CHOCH_bear") # {} <=>
               /\ TwoOfEach
               /\ Latest(SixHighs) < Previous(SixHighs)
               /\ Latest(SixLows) < Previous(SixLows)
        /\ Choch("CHOCH_bull") # {} <=>
               /\ TwoOfEach
               /\ Latest(SixHighs) > Previous(SixHighs)
               /\ Latest(SixLows) > Previous(SixLows)
        /\ \A k \in Choch("CHOCH_bear") \cup Choch("CHOCH_bull") : Events[k].idx = N - 1
        /\ Cardinality(Choch("CHOCH_bear")) <= 1
        /\ Cardinality(Choch("CHOCH_bull")) <= 1

\* all swing highs and all swing lows of the series in index order
AllHighs == Prices_of(OfType(Swings, "high"))
AllLows == Prices_of(OfType(Swings, "low"))
EnoughSwings == Len(Swings) >= 4 /\ Len(AllHighs) >= 2 /\ Len(AllLows) >= 2

\* C22: the bias is neutral unless there are at least 4 swings with two highs
\* and two lows among them; it is bull exactly when the last high and the
\* last low both exceed their predecessors, bear exactly when both are lower,
\* neutral in every mixed or equal case.
C22_BiasFromLastTwo ==
    spc = "done" =>
        LET bias    == decision.details.bias
            rising  == /\ EnoughSwings
                       /\ Latest(AllHighs) > Previous(AllHighs)
                       /\ Latest(AllLows) > Previous(AllLows)
            falling == /\ EnoughSwings
                       /\ Latest(AllHighs) < Previous(AllHighs)
                       /\ Latest(AllLows) < Previous(AllLows)
        IN  /\ bias \in {"bull", "bear", "neutral"}
            /\ bias = "bull" <=> rising
            /\ bias = "bear" <=> falling
            /\ ~EnoughSwings => bias = "neutral"

\* equal highs over falling lows: neutral
C22_Witness ==
    /\ spc = "done" /\ EnoughSwings
    /\ Latest(AllHighs) = Previous(AllHighs)
    /\ Latest(AllLows) < Previous(AllLows)
    /\ decision.details.bias = "neutral"

\* C27: with swings and events computed from the same series, CHOCH_bull
\* implies a bull bias, CHOCH_bear implies a bias that is not bull, the two
\* are never emitted together, and every event lies within the last 30
\* candles, so that analyze_trade counts every one of them as recent.
C27_EventsAgreeWithBias ==
    spc = "done" =>
        /\ Choch("CHOCH_bull") # {} => decision.details.bias = "bull"
        /\ Choch("CHOCH_bear") # {} => decision.details.bias # "bull"
        /\ ~(Choch("CHOCH_bull") # {} /\ Choch("CHOCH_bear") # {})
        /\ \A k \in 1..Len(Events) :
               /\ Events[k].idx >= N - 30
               /\ Events[k].idx >= 0 /\ Events[k].idx <= N - 1
        /\ decision.details.recent_events = [ k \in 1..Len(Events) |-> Events[k].type ]

\* a CHOCH_bull next to a BOS event in a series of more than 30 candles, and
\* the bull bias with it
C27_Witness ==
    /\ spc = "done" /\ Choch("CHOCH_bull") # {} /\ decision.details.bias = "bull"
    /\ \E k \in 1..Len(Events) : Events[k].type \in {"BOS_high", "BOS_low"}

-----------------------------------------------------------------------------
(* Claims about the liquidity clusters.  A swing is named by its place in  *)
(* the frame of swings, counted from 1; a cluster names its members by     *)
(* candle index and type, which no two swings of a series share.           *)

PlaceOf(idx, ty) ==
    CHOOSE k \in 1..Len(Swings) : Swings[k].idx = idx /\ Swings[k].type = ty
Places(c) == [ m \in 1..Len(c.members_idx) |-> PlaceOf(c.members_idx[m], c.types[m]) ]
PlaceSet(c) == { Places(c)[m] : m \in 1..Len(c.members_idx) }
Seed(c) == Places(c)[1]
\* |p_j - p_seed| / p_seed <= tolerance
WithinTolerance(j, seed) ==
    100 * Abs(Swings[j].price - Swings[seed].price)
        <= analyzer.liq_range_pct * Swings[seed].price
\* the swings taken by the clusters seeded before c
UsedBefore(c) ==
    UNION { PlaceSet(Clusters[b]) : b \in { a \in 1..Len(Clusters) : Seed(Clusters[a]) < Seed(c) } }

\* C23: each cluster is seeded by the first swing not yet used and holds,
\* with the seed, exactly the later unused swings whose price is within the
\* tolerance of the seed price; the clusters are listed by member count,
\* largest first; mean_price is the mean of the members' prices.
C23_GreedyClusters ==
    spc = "done" =>
        /\ \A a \in 1..Len(Clusters) :
               LET c == Clusters[a]
               IN  /\ c.size >= 1
                   /\ c.size = Len(c.members_idx) /\ c.size = Len(c.types)
                   /\ \A m \in 1..Len(c.members_idx) :
                          /\ Swings[Places(c)[m]].idx = c.members_idx[m]
                          /\ Swings[Places(c)[m]].type = c.types[m]
                   /\ Seed(c) \notin UsedBefore(c)
                   /\ \A k \in 1..(Seed(c) - 1) : k \in UsedBefore(c)
                   /\ \A m \in 1..(c.size - 1) : Places(c)[m] < Places(c)[m + 1]
                   /\ PlaceSet(c) \ {Seed(c)} =
                          { j \in (Seed(c) + 1)..Len(Swings) :
                              j \notin UsedBefore(c) /\ WithinTolerance(j, Seed(c)) }
                   /\ c.mean_price.den > 0
                   /\ c.mean_price.num * c.size =
                          c.mean_price.den * SumSeq([ m \in 1..c.size |-> Swings[Places(c)[m]].price ])
        /\ \A a \in 1..(Len(Clusters) - 1) : Clusters[a].size >= Clusters[a + 1].size
        /\ Swings # << >> => Clusters # << >>

\* a larger cluster listed before a cluster that was seeded earlier, and a
\* swing within the tolerance of a seed that an earlier cluster had taken
C23_Witness ==
    /\ spc = "done"
    /\ \E a, b \in 1..Len(Clusters) :
           /\ a < b /\ Clusters[a].size > Clusters[b].size
           /\ Seed(Clusters[a]) > Seed(Clusters[b])
    /\ \E a \in 1..Len(Clusters) :
           \E j \in (Seed(Clusters[a]) + 1)..Len(Swings) :
               WithinTolerance(j, Seed(Clusters[a])) /\ j \in UsedBefore(Clusters[a])

\* the clusters that hold the swing at place k
ClustersOf(k) == { a \in 1..Len(Clusters) : k \in PlaceSet(Clusters[a]) }

\* C29: the clusters partition the swing points: every swing is a member of
\* exactly one cluster and is listed once in it, no cluster is empty, and the
\* sizes add up to the number of swings.
C29_ClustersPartition ==
    spc = "done" =>
        /\ \A k \in 1..Len(Swings) : Cardinality(ClustersOf(k)) = 1
        /\ \A a \in 1..Len(Clusters) :
               /\ Clusters[a].size >= 1
               /\ Clusters[a].members_idx # << >>
               /\ Cardinality(PlaceSet(Clusters[a])) = Clusters[a].size
               /\ PlaceSet(Clusters[a]) \subseteq 1..Len(Swings)
        /\ SumSeq([ a \in 1..Len(Clusters) |-> Clusters[a].size ]) = Len(Swings)

\* a cluster of several swings next to clusters of one, over six swings or more
C29_Witness ==
    /\ spc = "done" /\ Len(Swings) >= 6 /\ Len(Clusters) >= 3
    /\ \E a, b \in 1..Len(Clusters) : Clusters[a].size >= 3 /\ Clusters[b].size = 1

-----------------------------------------------------------------------------
(* Further claims about detect_fvg                                         *)

WellFormedCandles == \A i \in 0..(N - 1) : LowOf(i) <= HighOf(i)

\* C28: when every candle has low <= high, each gap has low < high and
\* end_idx = start_idx + 2, and no start index carries both a bull gap and a
\* bear gap.
C28_GapsWellFormed ==
    (spc = "done" /\ WellFormedCandles) =>
        /\ \A g \in Rows(Gaps) :
               /\ g.low < g.high
               /\ g.end_idx = g.start_idx + 2
               /\ g.type \in {"bull", "bear"}
        /\ \A g, h \in Rows(Gaps) : g.start_idx = h.start_idx => g.type = h.type

\* a bear gap that starts one candle after a bull gap
C28_Witness ==
    /\ spc = "done" /\ WellFormedCandles
    /\ \E g, h \in Rows(Gaps) :
           g.type = "bull" /\ h.type = "bear" /\ h.start_idx = g.start_idx + 1

-----------------------------------------------------------------------------
(* Further claims about the scoring, with the frames passed by the caller  *)

\* the weights of the signals in hundredths; the gap distance is the
\* fraction GapDistNum / GapDistDen, and the gap's weight is counted times
\* GapDistDen
GapDistNum == IF NearGap.rec = None THEN 0 ELSE Val(NearGap.dist).num
GapDistDen == IF NearGap.rec = None THEN 1 ELSE Val(NearGap.dist).den
BiasWeight ==
    IF decision.details.bias = "bull" THEN 15
    ELSE IF decision.details.bias = "bear" THEN -15 ELSE 0
EventWeight(ty, w) == IF Has(decision.details.recent_events, ty) THEN w ELSE 0
GapAligned ==
    \/ decision.details.bias = "neutral"
    \/ Val(NearGap.rec).type = decision.details.bias
GapWeight ==
    IF NearGap.rec = None THEN 0
    ELSE IF GapAligned THEN Max(8 * GapDistDen, 12 * GapDistDen - 100 * GapDistNum)
    ELSE -5 * GapDistDen
ClusterHighs == Count(Val(NearLiq.rec).types, "high")
ClusterLows == Count(Val(NearLiq.rec).types, "low")
LiqWeight ==
    IF NearLiq.rec = None THEN 0
    ELSE IF ClusterHighs > ClusterLows
    THEN (IF decision.details.bias = "bull" THEN -8 ELSE 3)
    ELSE IF ClusterLows > ClusterHighs
    THEN (IF decision.details.bias = "bear" THEN 3 ELSE 5)
    ELSE 0
MostRecentSwing ==
    CHOOSE r \in Rows(GivenSwings) : \A q \in Rows(GivenSwings) : q.idx <= r.idx
NearLastSwing ==
    /\ GivenSwings # << >>
    /\ 1000 * Abs(LastClose - MostRecentSwing.price) <= 15 * MostRecentSwing.price
SwingWeight ==
    IF ~NearLastSwing THEN 0
    ELSE IF \/ (MostRecentSwing.type = "low" /\ decision.details.bias = "bull")
            \/ (MostRecentSwing.type = "high" /\ decision.details.bias = "bear")
    THEN 3 ELSE -3

\* C24: the raw score is 0.5 plus the weights of the signals: bias +0.15 /
\* -0.15 / 0, CHOCH_bull +0.25, CHOCH_bear -0.25, BOS_high +0.12, BOS_low
\* -0.12, nearest gap max(0.08, 0.12 - distance) when aligned or the bias is
\* neutral and -0.05 otherwise, nearest cluster -0.08 / +0.03 / +0.03 / +0.05,
\* last swing within 1.5% +0.03 / -0.03; an absent signal adds nothing.
C24_ScoreIsSumOfWeights ==
    spc = "done" =>
        /\ RawScore.den = 100 * GapDistDen
        /\ RawScore.num =
               (50 + BiasWeight
                   + EventWeight("CHOCH_bull", 25) + EventWeight("CHOCH_bear", -25)
                   + EventWeight("BOS_high", 12) + EventWeight("BOS_low", -12)
                   + LiqWeight + SwingWeight) * GapDistDen
               + GapWeight

\* every signal present at once, the gap at a distance from the close
C24_Witness ==
    /\ spc = "done" /\ decision.raised = "none"
    /\ decision.details.bias = "bull"
    /\ Len(decision.details.recent_events) >= 2
    /\ NearGap.rec # None /\ GapDistNum > 0
    /\ NearLiq.rec # None /\ LiqWeight # 0
    /\ SwingWeight # 0

-----------------------------------------------------------------------------
(* Claims about the levels of a Decision computed from the series alone    *)

\* entry, stop and targets before round(x, 3)
Unrounded ==
    Levels(decision.action, nearest_fvg(LastClose, Gaps, analyzer.fvg_max_dist_pct),
           Swings, LastClose)
PositivePrices == \A i \in 0..(N - 1) : LowOf(i) > 0 /\ HighOf(i) > 0 /\ CloseOf(i) > 0

\* C26: for every buy or sell from a series of positive prices the unrounded
\* levels are strictly ordered: stop < entry < targets[0] < targets[1] for a
\* buy, stop > entry > targets[0] > targets[1] for a sell.
C26_LevelsStrictlyOrdered ==
    (spc = "done" /\ decision.action \in {"buy", "sell"} /\ PositivePrices) =>
        LET entry   == Val(Unrounded.entry)
            stop    == Val(Unrounded.stop)
            targets == Unrounded.targets
        IN  /\ decision.targets = targets /\ Len(targets) = 2
            /\ decision.action = "buy" =>
                   (stop < entry /\ entry < targets[1] /\ targets[1] < targets[2])
            /\ decision.action = "sell" =>
                   (stop > entry /\ entry > targets[1] /\ targets[1] > targets[2])

-----------------------------------------------------------------------------
(* Claims about the levels, with the frames passed by the caller           *)

\* entry, stop and targets before round(x, 3)
GivenLevels == Levels(decision.action, NearGap, GivenSwings, LastClose)
NearBullGap == NearGap.rec # None /\ Val(NearGap.rec).type = "bull"
GivenLows == { r \in Rows(GivenSwings) : r.type = "low" }
LastSwingLow == (CHOOSE r \in GivenLows : \A q \in GivenLows : q.idx <= r.idx).price
Bought == spc = "done" /\ decision.raised = "none" /\ decision.action = "buy"

\* buy at a bull gap: entry = max(gap.low, last_close), stop = gap.low -
\* 0.6 * (gap.high - gap.low), targets = entry + {1.5, 3.0} * (entry - stop)
BuyAtGap(entry, stop, targets) ==
    LET g == Val(NearGap.rec)
    IN  /\ entry = Fine * Max(g.low, LastClose)
        /\ stop = Fine * g.low - (6 * Fine * (g.high - g.low)) \div 10
        /\ targets = << entry + (3 * (entry - stop)) \div 2, entry + 3 * (entry - stop) >>

\* buy with no swing low: entry = last_close, stop = 0.98 * last_close,
\* targets = {1.02, 1.04} * last_close
BuyAtClose(entry, stop, targets) ==
    /\ entry = Fine * LastClose
    /\ stop = (98 * Fine * LastClose) \div 100
    /\ targets = << (102 * Fine * LastClose) \div 100, (104 * Fine * LastClose) \div 100 >>

-----------------------------------------------------------------------------
(* Claims about the free-request quota                                     *)

FreeUsers == { u \in DOMAIN db : ~db[u].is_subscribed }
Stored(d, u) == IF u \in DOMAIN d THEN d[u].requests_used ELSE 0
WithinQuota == \A u \in FreeUsers : db[u].requests_used <= FREE_REQUESTS
\* no handler goes on to process_query for a free user who has used 10
NoLateQuery ==
    \A h \in DOMAIN updates :
        (updates[h].pc = "analyzing" /\ updates'[h].pc = "process_query"
         /\ updates[h].user_id \in FreeUsers)
            => db[updates[h].user_id].requests_used < FREE_REQUESTS
\* a rejected request leaves the stored usage as it was
RejectedKeepsUsage ==
    \A h \in DOMAIN updates :
        (updates[h].pc = "start" /\ updates'[h].pc = "rejected")
            => \A u \in UserIds : Stored(db', u) = Stored(db, u)

====
